---- MODULE Spec2Model ----
(***************************************************************************)
(* WebSockets Broker: the session table of sessionManager.js (listed in    *)
(* src/README.md) and the connection handlers of src/server.js.            *)
(*                                                                         *)
(* A WebSocket object is identified with its ws.ID (connection identities  *)
(* are taken to be unique: one accept per value of Date.now()).  Array     *)
(* indices are 0-based as in the source; At(s, i) reads sessions[i].       *)
(***************************************************************************)
EXTENDS Integers, Sequences, FiniteSets, TLC

\* ---------------------------------------------------------------- bounds
\* Number of WebSocket connections the broker accepts in a run.
MaxConns == 3

\* ------------------------------------------------------------ value sets
\* JavaScript null (targetKey / targetWS of an unpaired record).
null == "null"
\* JavaScript undefined (an absent field of a parsed message).
undefined == "undefined"

\* ws.ID values, in accept order (Date.now() is non-decreasing).
ConnID(n) == ToString(n)
Conns == {ConnID(n) : n \in 1..MaxConns}

\* System identifiers and shared keys the endpoints may declare.
SystemIDs == {"a", "b", "c"}
Keys == {"k1", "k2"}
\* The (client, target) pairs the endpoints declare: a pair, its reverse, a
\* change of target, and a system naming itself as its target.
Pairs == {<<"a", "b">>, <<"b", "a">>, <<"a", "c">>, <<"a", "a">>}
\* <<client, target, key>> of the SESSION messages the endpoints send.
ValidDeclarations == {<<p[1], p[2], k>> : p \in Pairs, k \in Keys}
\* SESSION messages with a field absent, or with the key given as JSON null.
InvalidDeclarations == {<<undefined, "b", "k1">>, <<"a", undefined, "k1">>,
                        <<"a", "b", undefined>>, <<"a", "b", null>>}
Declarations == ValidDeclarations \cup InvalidDeclarations
\* Payloads of COMMAND messages.
Commands == {"ping", "pong"}
\* message.data values that are not SESSION / COMMAND objects.
OtherData == {"text", "null", "untyped"}

VARIABLES
    conn,       \* conn[c]: "idle" (not yet accepted), "open" or "closed"
    sessions,   \* the sessions array of sessionManager.js
    sent,       \* ws.send calls made by the handler that ran last: <<to, text>>
    last,       \* the event that handler processed, with updateSessionTable's result
                \* and the owner of the client/target record it found
    crashed     \* an uncaught exception has ended the process

vars == <<conn, sessions, sent, last, crashed>>

\* ------------------------------------------------------- array primitives
At(s, i) == s[i + 1]

\* sessions.splice(i, 1)
splice(s, i) == [j \in 1..(Len(s) - 1) |-> IF j <= i THEN s[j] ELSE s[j + 1]]

\* sessions.findIndex(pred), given the set M of the 1-based indices whose element
\* satisfies pred: the least of them as a 0-based index, else -1
findIndex(M) ==
    IF M # {}
    THEN (CHOOSE j \in M : \A k \in M : j <= k) - 1
    ELSE -1

\* ------------------------------------------------------- sessionManager.js
\* addSession as it would be if it dropped the target side of the new record.
mut_addSession_noTarget(s, clientID, targetID, clientKey, targetKey, clientWS, targetWS) ==
    Append(s, [ID |-> clientWS,
               clientID |-> clientID,
               targetID |-> targetID,
               clientKey |-> clientKey,
               targetKey |-> null,
               clientWS |-> clientWS,
               targetWS |-> null])

\* addSession as it would be if it stored the client key as the target key.
mut_addSession_keyAsTarget(s, clientID, targetID, clientKey, targetKey, clientWS, targetWS) ==
    Append(s, [ID |-> clientWS,
               clientID |-> clientID,
               targetID |-> targetID,
               clientKey |-> clientKey,
               targetKey |-> clientKey,
               clientWS |-> clientWS,
               targetWS |-> targetWS])

addSession(s, clientID, targetID, clientKey, targetKey, clientWS, targetWS) ==
    Append(s, [ID |-> clientWS,
               clientID |-> clientID,
               targetID |-> targetID,
               clientKey |-> clientKey,
               targetKey |-> targetKey,
               clientWS |-> clientWS,
               targetWS |-> targetWS])

\* updateSessionFromIndex as it would be if it left the ID of the record alone.
mut_updateSessionFromIndex_keepID(s, i, sessionID, clientID, targetID, clientKey, targetKey, clientWS, targetWS) ==
    [s EXCEPT ![i + 1] = [ID |-> s[i + 1].ID,
                          clientID |-> clientID,
                          targetID |-> targetID,
                          clientKey |-> clientKey,
                          targetKey |-> targetKey,
                          clientWS |-> clientWS,
                          targetWS |-> targetWS]]

updateSessionFromIndex(s, i, sessionID, clientID, targetID, clientKey, targetKey, clientWS, targetWS) ==
    [s EXCEPT ![i + 1] = [ID |-> sessionID,
                          clientID |-> clientID,
                          targetID |-> targetID,
                          clientKey |-> clientKey,
                          targetKey |-> targetKey,
                          clientWS |-> clientWS,
                          targetWS |-> targetWS]]

\* updateSessionClearTargetInfo as it would be if it cleared nothing.
mut_updateSessionClearTargetInfo_noop(s, ID) == s

updateSessionClearTargetInfo(s, ID) ==
    [j \in 1..Len(s) |->
        IF s[j].ID = ID
        THEN [s[j] EXCEPT !.targetKey = null, !.targetWS = null]
        ELSE s[j]]

\* updateSessionClearTargetInfoFromTargetID as it would be if it returned the
\* partner without clearing the record's target side.
mut_updateSessionClearTargetInfoFromTargetID_noClear(s, ID) ==
    LET i == findIndex({j \in 1..Len(s) : s[j].targetWS # null /\ s[j].targetWS = ID})
    IN  IF i >= 0
        THEN [partnerWS |-> s[i + 1].clientWS, sessions |-> s]
        ELSE [partnerWS |-> null, sessions |-> s]

\* Returns partnerWS together with the array as the function leaves it.
updateSessionClearTargetInfoFromTargetID(s, ID) ==
    LET i == findIndex({j \in 1..Len(s) : s[j].targetWS # null /\ s[j].targetWS = ID})
    IN  IF i >= 0
        THEN [partnerWS |-> At(s, i).clientWS,
              sessions  |-> [s EXCEPT ![i + 1] = [@ EXCEPT !.targetKey = null,
                                                           !.targetWS = null]]]
        ELSE [partnerWS |-> null, sessions |-> s]

\* deleteSessionFromID as it would be if it removed nothing.
mut_deleteSessionFromID_keep(s, ID) == s

deleteSessionFromID(s, ID) ==
    LET i == findIndex({j \in 1..Len(s) : s[j].ID = ID})
    IN  IF i >= 0 THEN splice(s, i) ELSE s

\* The scan of getTargetWSFromSession as it would be without the comparison of
\* the keys.
RECURSIVE mut_getTargetScan_noKeyCheck(_, _, _)
mut_getTargetScan_noKeyCheck(s, ws, i) ==
    IF i >= Len(s)
    THEN [isNumber |-> TRUE, number |-> -1, ws |-> null]
    ELSE IF s[i + 1].clientWS # null /\ s[i + 1].clientWS = ws
         THEN [isNumber |-> FALSE, number |-> 0, ws |-> s[i + 1].targetWS]
         ELSE mut_getTargetScan_noKeyCheck(s, ws, i + 1)

\* getTargetWSFromSession returns a WebSocket (or null) or one of the numbers -1, -2.
RECURSIVE getTargetScan(_, _, _)
getTargetScan(s, ws, i) ==
    IF i >= Len(s)
    THEN [isNumber |-> TRUE, number |-> -1, ws |-> null]
    ELSE IF At(s, i).clientWS # null /\ At(s, i).clientWS = ws
         THEN IF At(s, i).clientKey = At(s, i).targetKey
              THEN [isNumber |-> FALSE, number |-> 0, ws |-> At(s, i).targetWS]
              ELSE [isNumber |-> TRUE, number |-> -2, ws |-> null]
         ELSE getTargetScan(s, ws, i + 1)

getTargetWSFromSession(s, ws) == getTargetScan(s, ws, 0)

\* The match of the loop as it would be if it never recognised the
\* client/target record.
mut_matchIndices_noClient(s, i, clientID, targetID, ci, ti) ==
    IF s[i + 1].clientID = targetID /\ s[i + 1].targetID = clientID
    THEN [clientRecordIndex |-> ci, targetRecordIndex |-> i]
    ELSE [clientRecordIndex |-> ci, targetRecordIndex |-> ti]

\* The match of the loop as it would be if the target/client test compared the
\* client side only.
mut_matchIndices_looseReverse(s, i, clientID, targetID, ci, ti) ==
    IF s[i + 1].clientID = clientID /\ s[i + 1].targetID = targetID
    THEN [clientRecordIndex |-> i, targetRecordIndex |-> ti]
    ELSE IF s[i + 1].clientID = targetID
         THEN [clientRecordIndex |-> ci, targetRecordIndex |-> i]
         ELSE [clientRecordIndex |-> ci, targetRecordIndex |-> ti]

\* The first loop of updateSessionTable: cleanup of a record the socket holds
\* for another pair, and location of the client/target and target/client records.
matchIndices(s, i, clientID, targetID, ci, ti) ==
    IF At(s, i).clientID = clientID /\ At(s, i).targetID = targetID
    THEN [clientRecordIndex |-> i, targetRecordIndex |-> ti]
    ELSE IF At(s, i).clientID = targetID /\ At(s, i).targetID = clientID
         THEN [clientRecordIndex |-> ci, targetRecordIndex |-> i]
         ELSE [clientRecordIndex |-> ci, targetRecordIndex |-> ti]

\* The loop as it would be without the cleanup of the record the socket holds
\* for another pair.
RECURSIVE mut_locateLoop_noCleanup(_, _, _, _, _, _, _)
mut_locateLoop_noCleanup(s, i, ws, clientID, targetID, ci, ti) ==
    IF i >= Len(s)
    THEN [sessions |-> s, clientRecordIndex |-> ci, targetRecordIndex |-> ti]
    ELSE LET m == matchIndices(s, i, clientID, targetID, ci, ti)
         IN  mut_locateLoop_noCleanup(s, i + 1, ws, clientID, targetID,
                                      m.clientRecordIndex, m.targetRecordIndex)

\* The loop as it would be if, after removing a record, it went on with the
\* next index without matching the record that moved into the freed place.
RECURSIVE mut_locateLoop_skipAfterSplice(_, _, _, _, _, _, _)
mut_locateLoop_skipAfterSplice(s, i, ws, clientID, targetID, ci, ti) ==
    IF i >= Len(s)
    THEN [sessions |-> s, clientRecordIndex |-> ci, targetRecordIndex |-> ti]
    ELSE LET changes == s[i + 1].ID = ws
                        /\ (s[i + 1].clientID # clientID \/ s[i + 1].targetID # targetID)
             cleared == IF changes /\ s[i + 1].targetWS # null
                        THEN updateSessionClearTargetInfo(s, s[i + 1].targetWS)
                        ELSE s
             s2 == IF changes THEN splice(cleared, i) ELSE s
         IN  IF changes
             THEN mut_locateLoop_skipAfterSplice(s2, i + 1, ws, clientID, targetID, ci, ti)
             ELSE LET m == matchIndices(s2, i, clientID, targetID, ci, ti)
                  IN  mut_locateLoop_skipAfterSplice(s2, i + 1, ws, clientID, targetID,
                                                     m.clientRecordIndex,
                                                     m.targetRecordIndex)

RECURSIVE locateLoop(_, _, _, _, _, _, _)
locateLoop(s, i, ws, clientID, targetID, ci, ti) ==
    IF i >= Len(s)
    THEN [sessions |-> s, clientRecordIndex |-> ci, targetRecordIndex |-> ti]
    ELSE LET changes == At(s, i).ID = ws
                        /\ (At(s, i).clientID # clientID \/ At(s, i).targetID # targetID)
             cleared == IF changes /\ At(s, i).targetWS # null
                        THEN updateSessionClearTargetInfo(s, At(s, i).targetWS)
                        ELSE s
             s2 == IF changes THEN splice(cleared, i) ELSE s
         IN  IF changes /\ i >= Len(s2)
             THEN [sessions |-> s2, clientRecordIndex |-> ci, targetRecordIndex |-> ti]
             ELSE LET m == matchIndices(s2, i, clientID, targetID, ci, ti)
                  IN  locateLoop(s2, i + 1, ws, clientID, targetID,
                                 m.clientRecordIndex, m.targetRecordIndex)

\* x == undefined (JavaScript's loose equality: true of undefined and of null)
looseUndefined(x) == x \in {undefined, null}

\* The input test of updateSessionTable as it would be without the test of the key.
mut_invalidInput_noKey(clientID, targetID, key) ==
    looseUndefined(clientID) \/ looseUndefined(targetID)

\* The input test of updateSessionTable as it would be with strict equality
\* (=== undefined).
mut_invalidInput_strict(clientID, targetID, key) ==
    clientID = undefined \/ targetID = undefined \/ key = undefined

\* The input test that opens updateSessionTable.
invalidInput(clientID, targetID, key) ==
    looseUndefined(clientID) \/ looseUndefined(targetID) \/ looseUndefined(key)

\* The value updateSessionTable returns (the number -100, or an object with
\* result / clientWS / targetWS) together with the array as it leaves it.
updateSessionTable(s, ws, clientID, targetID, key) ==
    IF invalidInput(clientID, targetID, key)
    THEN [isObject |-> FALSE, result |-> -100, clientWS |-> null, targetWS |-> null,
          sessions |-> s]
    ELSE
    LET loc == locateLoop(s, 0, ws, clientID, targetID, -1, -1)
        t   == loc.sessions
        c   == loc.clientRecordIndex
        r   == loc.targetRecordIndex
    IN  IF c = -1 /\ r = -1
        THEN [isObject |-> TRUE, result |-> -1, clientWS |-> ws, targetWS |-> null,
              sessions |-> addSession(t, clientID, targetID, key, null, ws, null)]
        ELSE IF c > -1 /\ r = -1
        THEN [isObject |-> TRUE, result |-> -1, clientWS |-> ws, targetWS |-> null,
              sessions |-> updateSessionFromIndex(t, c, ws, clientID, targetID, key,
                                                  null, ws, null)]
        ELSE IF c = -1 /\ r > -1
        THEN LET t1 == updateSessionFromIndex(t, r, At(t, r).ID, targetID, clientID,
                                              At(t, r).clientKey, key,
                                              At(t, r).clientWS, ws)
                 t2 == addSession(t1, clientID, targetID, key, At(t1, r).clientKey,
                                  ws, At(t1, r).clientWS)
             IN  [isObject |-> TRUE,
                  result |-> IF key = At(t2, r).clientKey THEN 0 ELSE -2,
                  clientWS |-> ws, targetWS |-> At(t2, r).clientWS,
                  sessions |-> t2]
        ELSE LET t1 == updateSessionFromIndex(t, c, ws, clientID, targetID, key,
                                              At(t, r).clientKey, ws, At(t, r).clientWS)
                 t2 == updateSessionFromIndex(t1, r, At(t1, r).ID, targetID, clientID,
                                              At(t1, r).clientKey, key,
                                              At(t1, r).clientWS, ws)
             IN  [isObject |-> TRUE,
                  result |-> IF key = At(t2, r).clientKey THEN 0 ELSE -2,
                  clientWS |-> ws, targetWS |-> At(t2, r).clientWS,
                  sessions |-> t2]

\* ---------------------------------------------------------------- server.js
\* "SESSION_NOT_UP: " + res.result (res.result of a number is undefined)
NotUpText(res) ==
    IF res.isObject
    THEN "SESSION_NOT_UP: " \o ToString(res.result)
    ELSE "SESSION_NOT_UP: undefined"

ResultText(res) == IF res.isObject THEN ToString(res.result) ELSE undefined

\* The sends of the SESSION case as they would be if only the declaring socket
\* were told.
mut_sessionSends_declarerOnly(ws, res) ==
    IF res.isObject /\ res.result = 0
    THEN <<<<ws, "SESSION_UP">>>>
    ELSE <<<<ws, NotUpText(res)>>>>

\* The sends of the SESSION case as they would be if the target were told of
\* every result other than 0.
mut_sessionSends_alwaysTarget(ws, res) ==
    IF res.isObject /\ res.result = 0
    THEN <<<<ws, "SESSION_UP">>, <<res.targetWS, "SESSION_UP">>>>
    ELSE <<<<ws, NotUpText(res)>>, <<res.targetWS, NotUpText(res)>>>>

\* The sends of the SESSION case of ws.onmessage.
sessionSends(ws, res) ==
    IF res.isObject /\ res.result = 0
    THEN <<<<ws, "SESSION_UP">>, <<res.targetWS, "SESSION_UP">>>>
    ELSE IF res.isObject /\ res.result = -2
         THEN <<<<ws, NotUpText(res)>>, <<res.targetWS, "SESSION_NOT_UP: -2">>>>
         ELSE <<<<ws, NotUpText(res)>>>>

\* sessions[clientRecordIndex].ID as the loop of updateSessionTable leaves the
\* array, before the record is updated: the owner of the client/target record the
\* declaration found, or null when it found none.
foundOwner(s, ws, clientID, targetID, key) ==
    IF invalidInput(clientID, targetID, key)
    THEN null
    ELSE LET loc == locateLoop(s, 0, ws, clientID, targetID, -1, -1)
         IN  IF loc.clientRecordIndex > -1
             THEN At(loc.sessions, loc.clientRecordIndex).ID
             ELSE null

NoEvent == [op |-> "none", conn |-> null, client |-> null, target |-> null,
            key |-> null, command |-> null, result |-> null, found |-> null]

Init ==
    /\ conn = [c \in Conns |-> "idle"]
    /\ sessions = <<>>
    /\ sent = <<>>
    /\ last = NoEvent
    /\ crashed = FALSE

\* wss.on('connection'): the next connection is accepted and gets its ID.
Connect(c) ==
    /\ ~crashed
    /\ conn[c] = "idle"
    /\ c = ConnID(Cardinality({d \in Conns : conn[d] # "idle"}) + 1)
    /\ conn' = [conn EXCEPT ![c] = "open"]
    /\ sent' = <<>>
    /\ last' = [NoEvent EXCEPT !.op = "connection", !.conn = c]
    /\ UNCHANGED <<sessions, crashed>>

\* ws.onmessage with data = {type: "SESSION", client, target, key}
Session(c, clientID, targetID, key) ==
    /\ ~crashed
    /\ conn[c] = "open"
    /\ LET res == updateSessionTable(sessions, c, clientID, targetID, key)
       IN  /\ sessions' = res.sessions
           /\ sent' = sessionSends(c, res)
           /\ last' = [NoEvent EXCEPT !.op = "SESSION", !.conn = c,
                                      !.client = clientID, !.target = targetID,
                                      !.key = key, !.result = ResultText(res),
                                      !.found = foundOwner(sessions, c, clientID,
                                                           targetID, key)]
    /\ UNCHANGED <<conn, crashed>>

\* processCommand as it would be if it sent on the socket it was called with.
mut_processCommand_echo(s, ws, command) ==
    LET wsTarget == getTargetWSFromSession(s, ws)
    IN  IF wsTarget.isNumber
        THEN [sent |-> <<>>, throws |-> FALSE]
        ELSE [sent |-> <<<<ws, command>>>>, throws |-> FALSE]

\* processCommand(ws, command)
processCommand(s, ws, command) ==
    LET wsTarget == getTargetWSFromSession(s, ws)
    IN  IF wsTarget.isNumber
        THEN [sent |-> <<>>, throws |-> FALSE]
        ELSE IF wsTarget.ws = null
             THEN [sent |-> <<>>, throws |-> TRUE]
             ELSE [sent |-> <<<<wsTarget.ws, command>>>>, throws |-> FALSE]

\* ws.onmessage with data = {type: "COMMAND", command}
Command(c, command) ==
    /\ ~crashed
    /\ conn[c] = "open"
    /\ LET out == processCommand(sessions, c, command)
       IN  /\ sent' = out.sent
           /\ crashed' = out.throws
    /\ last' = [NoEvent EXCEPT !.op = "COMMAND", !.conn = c, !.command = command]
    /\ UNCHANGED <<conn, sessions>>

\* ws.onmessage with any other message.data: text that JSON.parse rejects, JSON
\* for a string or a number (typeof != 'object': return), JSON null (typeof null
\* is 'object', and data.type throws), an object of another type (default case).
Other(c, d) ==
    /\ ~crashed
    /\ conn[c] = "open"
    /\ crashed' = (d = "null")
    /\ sent' = <<>>
    /\ last' = [NoEvent EXCEPT !.op = d, !.conn = c]
    /\ UNCHANGED <<conn, sessions>>

\* ws.onclose
Close(c) ==
    /\ ~crashed
    /\ conn[c] = "open"
    /\ LET cl == updateSessionClearTargetInfoFromTargetID(sessions, c)
       IN  /\ sent' = IF cl.partnerWS # null
                      THEN <<<<cl.partnerWS, "SESSION_NOT_UP: -1">>>>
                      ELSE <<>>
           /\ sessions' = deleteSessionFromID(cl.sessions, c)
    /\ conn' = [conn EXCEPT ![c] = "closed"]
    /\ last' = [NoEvent EXCEPT !.op = "close", !.conn = c]
    /\ UNCHANGED crashed

Next ==
    \/ \E c \in Conns : Connect(c)
    \/ \E c \in Conns, d \in Declarations : Session(c, d[1], d[2], d[3])
    \/ \E c \in Conns, command \in Commands : Command(c, command)
    \/ \E c \in Conns, d \in OtherData : Other(c, d)
    \/ \E c \in Conns : Close(c)

Spec == Init /\ [][Next]_vars

\* ------------------------------------------------------------ observations
\* Indices (1-based) of the records of array s owned by connection c / declared
\* for the pair (x, y).
OwnedBy(s, c) == {j \in 1..Len(s) : s[j].ID = c}
WithPair(s, x, y) == {j \in 1..Len(s) : s[j].clientID = x /\ s[j].targetID = y}

\* Event e is a SESSION message with client, target and key present.
Declares(e) ==
    /\ e.op = "SESSION"
    /\ ~looseUndefined(e.client) /\ ~looseUndefined(e.target) /\ ~looseUndefined(e.key)

\* Event e is the declaration (x, y, k) by connection c.
IsDecl(e, c, x, y, k) ==
    e.op = "SESSION" /\ e.conn = c /\ e.client = x /\ e.target = y /\ e.key = k

\* The connections a handler sent text t to / sent anything to.
SentTo(q, t) == {q[j][1] : j \in {i \in 1..Len(q) : q[i][2] = t}}
Receivers(q) == {q[j][1] : j \in 1..Len(q)}

\* Record r is owned by c, declares (x, y, k) and mirrors key tk of partner tw.
IsRecord(r, c, x, y, k, tk, tw) ==
    /\ r.ID = c /\ r.clientWS = c
    /\ r.clientID = x /\ r.targetID = y
    /\ r.clientKey = k /\ r.targetKey = tk /\ r.targetWS = tw

\* Records ra and rb are a confirmed pair: two connections, reverse pairs, each
\* pointing at the other's owner, each with equal keys.
ConfirmedRecords(ra, rb) ==
    /\ ra.ID # rb.ID
    /\ ra.clientID = rb.targetID /\ ra.targetID = rb.clientID
    /\ ra.targetWS = rb.ID /\ rb.targetWS = ra.ID
    /\ ra.clientKey = ra.targetKey
    /\ rb.clientKey = rb.targetKey

\* The relay from X to Y is enabled in array s: X owns a record whose targetWS is
\* Y and whose keys are equal.
RelayEnabled(s, X, Y) ==
    \E j \in 1..Len(s) :
        /\ s[j].clientWS = X /\ s[j].targetWS = Y
        /\ s[j].clientKey = s[j].targetKey

\* ------------------------------------------------------------------ claims

\* C1 (Symmetry): when connection A has declared (a,b,k) with a # b, the table
\* holds no record for (b,a), and a different connection B then declares (b,a,k),
\* B's result is 0, "SESSION_UP" is sent to both A and B and to nobody else, and
\* the table then holds exactly two records for the two pairs: A's (a,b) pointing
\* at B and B's (b,a) pointing at A, each with clientKey = targetKey = k.
C1_Symmetry ==
    [][( /\ Declares(last) /\ Declares(last')
         /\ last'.conn # last.conn
         /\ last.client # last.target
         /\ last'.client = last.target /\ last'.target = last.client
         /\ last'.key = last.key
         /\ WithPair(sessions, last.target, last.client) = {} )
       => LET A == last.conn
              B == last'.conn
              a == last.client
              b == last.target
              k == last.key
          IN  /\ last'.result = "0"
              /\ Len(sent') = 2
              /\ SentTo(sent', "SESSION_UP") = {A, B}
              /\ Cardinality(WithPair(sessions', a, b) \cup WithPair(sessions', b, a)) = 2
              /\ \E i \in WithPair(sessions', a, b) :
                    IsRecord(sessions'[i], A, a, b, k, k, B)
              /\ \E j \in WithPair(sessions', b, a) :
                    IsRecord(sessions'[j], B, b, a, k, k, A)
      ]_vars

\* A reached state in which B has just confirmed the pair A declared before.
C1_Witness ==
    \E A \in Conns, B \in Conns, k \in Keys :
        /\ A # B
        /\ IsDecl(last, B, "b", "a", k) /\ last.result = "0"
        /\ SentTo(sent, "SESSION_UP") = {A, B}
        /\ Len(sessions) = 2
        /\ IsRecord(sessions[1], A, "a", "b", k, k, B)
        /\ IsRecord(sessions[2], B, "b", "a", k, k, A)

\* C2 (Relay delivery): when connection C sends a COMMAND and the record C owns
\* has a targetWS and clientKey = targetKey, exactly one send is made: the payload,
\* unmodified, to that targetWS; and that targetWS owns the record of the reverse pair.
C2_RelayDelivery ==
    [][last'.op = "COMMAND"
       => \A j \in 1..Len(sessions) :
            ( /\ sessions[j].clientWS = last'.conn
              /\ sessions[j].targetWS # null
              /\ sessions[j].clientKey = sessions[j].targetKey )
            => /\ sent' = << <<sessions[j].targetWS, last'.command>> >>
               /\ \E i \in WithPair(sessions, sessions[j].targetID, sessions[j].clientID) :
                    sessions[i].ID = sessions[j].targetWS
      ]_vars

\* A reached state in which a command of a confirmed connection was relayed.
C2_Witness ==
    \E j \in 1..Len(sessions) :
        /\ last.op = "COMMAND" /\ last.command = "ping"
        /\ sessions[j].clientWS = last.conn
        /\ sessions[j].targetWS # null
        /\ sessions[j].clientKey = sessions[j].targetKey
        /\ sent = << <<sessions[j].targetWS, "ping">> >>

\* C3 (Dangling relay is inert): a COMMAND from a connection that owns no record,
\* or whose record has no targetWS, or whose record has clientKey # targetKey, makes
\* no send; and every COMMAND leaves the sessions array unchanged.
C3_DanglingRelayInert ==
    [][last'.op = "COMMAND"
       => /\ sessions' = sessions
          /\ ( \/ OwnedBy(sessions, last'.conn) = {}
               \/ \E j \in OwnedBy(sessions, last'.conn) :
                     \/ sessions[j].targetWS = null
                     \/ sessions[j].clientKey # sessions[j].targetKey )
             => sent' = <<>>
      ]_vars

\* A reached state in which the command of a connection whose record has a
\* targetWS but differing keys was dropped.
C3_Witness ==
    /\ last.op = "COMMAND" /\ sent = <<>>
    /\ \E j \in OwnedBy(sessions, last.conn) :
          sessions[j].targetWS # null /\ sessions[j].clientKey # sessions[j].targetKey

\* C4 (Mismatch detection): when A has declared (a,b,k1) with a # b and a
\* different connection B then declares (b,a,k2) with k1 # k2, B's result is -2 and
\* "SESSION_NOT_UP: -2" is sent to both A and B; after that step the relay is
\* enabled neither from A to B nor from B to A; a relay that is not enabled from
\* X to Y stays so across every step that is not a SESSION message of X or Y; and
\* while it is not enabled a COMMAND of X sends nothing to Y.
C4_MismatchDetection ==
    [][/\ ( /\ Declares(last) /\ Declares(last')
            /\ last'.conn # last.conn
            /\ last.client # last.target
            /\ last'.client = last.target /\ last'.target = last.client
            /\ last'.key # last.key )
          => /\ last'.result = "-2"
             /\ Len(sent') = 2
             /\ SentTo(sent', "SESSION_NOT_UP: -2") = {last.conn, last'.conn}
             /\ ~RelayEnabled(sessions', last.conn, last'.conn)
             /\ ~RelayEnabled(sessions', last'.conn, last.conn)
       /\ \A X \in Conns, Y \in Conns :
            (X # Y /\ ~RelayEnabled(sessions, X, Y))
            => /\ (last'.op = "SESSION" /\ last'.conn \in {X, Y})
                  \/ ~RelayEnabled(sessions', X, Y)
               /\ (last'.op = "COMMAND" /\ last'.conn = X)
                  => Y \notin Receivers(sent')
      ]_vars

\* A reached state in which B's declaration has just mismatched A's.
C4_Witness ==
    \E A \in Conns, B \in Conns, k1 \in Keys, k2 \in Keys :
        /\ A # B /\ k1 # k2
        /\ IsDecl(last, B, "b", "a", k2) /\ last.result = "-2"
        /\ SentTo(sent, "SESSION_NOT_UP: -2") = {A, B}
        /\ \E i \in OwnedBy(sessions, A) :
              IsRecord(sessions[i], A, "a", "b", k1, k2, B)
        /\ \E j \in OwnedBy(sessions, B) :
              IsRecord(sessions[j], B, "b", "a", k2, k1, A)

\* C5 (Disconnect cascade): when A and B hold a confirmed pair (a,b)/(b,a) and B
\* disconnects, A's record is still there with targetKey and targetWS cleared,
\* "SESSION_NOT_UP: -1" has been sent to A, and no record with ID B remains.
C5_DisconnectCascade ==
    [][last'.op = "close"
       => \A i \in 1..Len(sessions), j \in 1..Len(sessions) :
            (ConfirmedRecords(sessions[i], sessions[j]) /\ sessions[j].ID = last'.conn)
            => LET A == sessions[i].ID
                   B == sessions[j].ID
               IN  /\ \E h \in OwnedBy(sessions', A) :
                        /\ sessions'[h].clientID = sessions[i].clientID
                        /\ sessions'[h].targetID = sessions[i].targetID
                        /\ sessions'[h].targetKey = null
                        /\ sessions'[h].targetWS = null
                   /\ A \in SentTo(sent', "SESSION_NOT_UP: -1")
                   /\ OwnedBy(sessions', B) = {}
      ]_vars

\* A reached state in which a partner has just disconnected and the record of
\* the connection left behind is pending again.
C5_Witness ==
    \E A \in Conns, B \in Conns :
        /\ last.op = "close" /\ last.conn = B /\ conn[B] = "closed"
        /\ sent = << <<A, "SESSION_NOT_UP: -1">> >>
        /\ OwnedBy(sessions, B) = {}
        /\ \E i \in OwnedBy(sessions, A) :
              /\ sessions[i].targetID = "b"
              /\ sessions[i].targetKey = null /\ sessions[i].targetWS = null

\* C6 (Identity change cascades): when A and B hold a confirmed pair (a,b)/(b,a)
\* and A declares (a,c,k) for another target c, B's record has targetKey and
\* targetWS cleared, "SESSION_NOT_UP: -1" has been sent to B, and A owns no record
\* for (a,b) any more.
C6_IdentityChangeCascades ==
    [][Declares(last')
       => \A i \in 1..Len(sessions), j \in 1..Len(sessions) :
            ( /\ ConfirmedRecords(sessions[i], sessions[j])
              /\ sessions[i].ID = last'.conn
              /\ last'.client = sessions[i].clientID
              /\ last'.target # sessions[i].targetID )
            => LET A == sessions[i].ID
                   B == sessions[j].ID
               IN  /\ \E h \in OwnedBy(sessions', B) :
                        /\ sessions'[h].clientID = sessions[j].clientID
                        /\ sessions'[h].targetID = sessions[j].targetID
                        /\ sessions'[h].targetKey = null
                        /\ sessions'[h].targetWS = null
                   /\ B \in SentTo(sent', "SESSION_NOT_UP: -1")
                   /\ OwnedBy(sessions', A)
                        \cap WithPair(sessions', sessions[i].clientID, sessions[i].targetID)
                      = {}
      ]_vars

\* C6, the part that concerns the table alone: after such a declaration B's record
\* is pending and A owns no record for (a,b).
C6_TableCascade ==
    [][Declares(last')
       => \A i \in 1..Len(sessions), j \in 1..Len(sessions) :
            ( /\ ConfirmedRecords(sessions[i], sessions[j])
              /\ sessions[i].ID = last'.conn
              /\ last'.client = sessions[i].clientID
              /\ last'.target # sessions[i].targetID )
            => /\ \E h \in OwnedBy(sessions', sessions[j].ID) :
                    /\ sessions'[h].clientID = sessions[j].clientID
                    /\ sessions'[h].targetID = sessions[j].targetID
                    /\ sessions'[h].targetKey = null
                    /\ sessions'[h].targetWS = null
               /\ OwnedBy(sessions', sessions[i].ID)
                    \cap WithPair(sessions', sessions[i].clientID, sessions[i].targetID)
                  = {}
               /\ Receivers(sent') = {sessions[i].ID}
      ]_vars

\* C7 (Idempotent re-declaration): when connection A makes the valid declaration
\* (a,b,k) twice in a row, the second one returns the result of the first and
\* leaves the sessions array as the first left it.
C7_IdempotentRedeclaration ==
    [][( /\ Declares(last) /\ Declares(last')
         /\ IsDecl(last', last.conn, last.client, last.target, last.key) )
       => /\ last'.result = last.result
          /\ sessions' = sessions
      ]_vars

\* A reached state after a declaration that confirmed a link, from which the
\* declaring connection can make the same declaration again.
C7_Witness ==
    \E i \in 1..Len(sessions), j \in 1..Len(sessions) :
        /\ Len(sessions) = 3
        /\ ConfirmedRecords(sessions[i], sessions[j])
        /\ IsDecl(last, sessions[i].ID, sessions[i].clientID, sessions[i].targetID,
                  sessions[i].clientKey)
        /\ last.result = "0"
        /\ conn[last.conn] = "open"

\* The array as the identity-change cleanup of a declaration (x, y) by C leaves
\* it, as far as pairs and client keys go: without the record C holds for another pair.
AfterCleanup(s, C, x, y) ==
    LET Stays(r) == ~(r.ID = C /\ (r.clientID # x \/ r.targetID # y))
    IN  SelectSeq(s, Stays)

\* The classification of C8 for a declaration of pair (x, y) with key k and
\* result res that leads to array t, where u is the array after the cleanup and R
\* the indices of the reverse records in u.
Classified(u, t, x, y, k, res, R) ==
    /\ res = "-1" <=> R = {}
    /\ res = "0"  <=> \E j \in R : u[j].clientKey = k
    /\ res = "-2" <=> \E j \in R : u[j].clientKey # k
    /\ Len(t) = Len(u) + 1 <=> WithPair(u, x, y) = {}
    /\ Len(t) = Len(u) <=> WithPair(u, x, y) # {}

\* C8 as stated (Outcome classification): for every valid declaration
\* (clientID, targetID, key) by C, after the identity-change cleanup the result is
\* -1 iff no record with pair (targetID, clientID) exists, 0 iff one exists with
\* clientKey = key, -2 iff one exists with clientKey # key; and a record is added
\* iff no record with pair (clientID, targetID) exists.
C8_OutcomeClassification_AsStated ==
    [][Declares(last')
       => LET u == AfterCleanup(sessions, last'.conn, last'.client, last'.target)
          IN  Classified(u, sessions', last'.client, last'.target, last'.key,
                         last'.result,
                         WithPair(u, last'.target, last'.client))
      ]_vars

\* C8 amended: the same, with the reverse record a record other than the one
\* with pair (clientID, targetID); so a declaration whose clientID equals its
\* targetID always has result -1.
C8_OutcomeClassification ==
    [][Declares(last')
       => LET u == AfterCleanup(sessions, last'.conn, last'.client, last'.target)
          IN  Classified(u, sessions', last'.client, last'.target, last'.key,
                         last'.result,
                         WithPair(u, last'.target, last'.client)
                            \ WithPair(u, last'.client, last'.target))
      ]_vars

\* A reached state after a declaration that dropped the record its connection
\* held for another pair and was then classified against the reverse record.
C8_Witness ==
    \E C \in Conns :
        /\ IsDecl(last, C, "b", "a", "k2") /\ last.result = "-2"
        /\ Len(sessions) = 3
        /\ \E j \in WithPair(sessions, "a", "b") :
              sessions[j].clientKey = "k1" /\ sessions[j].targetWS = C

\* C9: at most one record per connection identity, in every reached state.
C9_OneRecordPerConnection ==
    \A c \in Conns : Cardinality(OwnedBy(sessions, c)) <= 1

\* A reached state after a re-declaration with a changed pair, with a record for
\* each of three connections.
C9_Witness ==
    /\ Len(sessions) = 3
    /\ \A c \in Conns : Cardinality(OwnedBy(sessions, c)) = 1
    /\ IsDecl(last, sessions[3].ID, "a", "c", "k1")
    /\ \E j \in 1..2 : sessions[j].targetID = "a" /\ sessions[j].targetWS = null
                       /\ sessions[j].clientID = "b"

\* The back-reference property of C10 for record i of array s, whose partner
\* records are those with the indices P.
BackReferenced(s, i, P) ==
    /\ s[i].targetWS # null <=> P # {}
    /\ s[i].targetWS # null
       => \A j \in P : s[j].ID = s[i].targetWS /\ s[j].targetWS = s[i].ID

\* C10 as stated (Pairing back-reference): every record has a targetWS iff the
\* table holds a record of the reverse pair, and then targetWS owns that record
\* and that record's targetWS is this record's owner.
C10_BackReference_AsStated ==
    \A i \in 1..Len(sessions) :
        BackReferenced(sessions, i,
                       WithPair(sessions, sessions[i].targetID, sessions[i].clientID))

\* C10 amended: the same, with the partner record a record other than the
\* record itself.
C10_BackReference ==
    \A i \in 1..Len(sessions) :
        BackReferenced(sessions, i,
                       WithPair(sessions, sessions[i].targetID, sessions[i].clientID) \ {i})

\* A reached state with a linked pair of records beside the unlinked record of a
\* system that named itself as its target.
C10_Witness ==
    /\ Len(sessions) = 3
    /\ \E i \in 1..3, j \in 1..3, h \in 1..3 :
        /\ i # j
        /\ sessions[i].targetWS = sessions[j].ID
        /\ sessions[j].targetWS = sessions[i].ID
        /\ sessions[i].clientKey # sessions[i].targetKey
        /\ sessions[h].targetWS = null
        /\ sessions[h].clientID = sessions[h].targetID

\* Connection c owns a record with a targetWS and equal keys in array s.
Confirmed(s, c) ==
    \E j \in OwnedBy(s, c) :
        s[j].targetWS # null /\ s[j].clientKey = s[j].targetKey

\* Event e is a SESSION message in which client, target or key is absent.
InvalidDecl(e) ==
    /\ e.op = "SESSION"
    /\ (looseUndefined(e.client) \/ looseUndefined(e.target) \/ looseUndefined(e.key))

\* C11 (Invalid declaration leaves the table untouched): a SESSION message in
\* which client, target or key is absent leaves the sessions array as it was, in
\* every reached state; in particular a record the declaring connection owns is not
\* removed and its partner's record keeps its targetKey and targetWS.
C11_InvalidLeavesTable ==
    [][InvalidDecl(last') => sessions' = sessions]_vars

\* A reached state after an invalid declaration by a connection that owns a
\* confirmed record for another pair than the message names.
C11_Witness ==
    /\ InvalidDecl(last)
    /\ \E j \in OwnedBy(sessions, last.conn) :
          /\ sessions[j].targetWS # null
          /\ sessions[j].clientKey = sessions[j].targetKey
          /\ (sessions[j].clientID # last.client \/ sessions[j].targetID # last.target)

\* C12 (Invalid declaration signal): a SESSION message in which client, target
\* or key is absent makes exactly one send, "SESSION_NOT_UP: -100", to the
\* declaring connection.
C12_InvalidSignal ==
    [][InvalidDecl(last')
       => sent' = << <<last'.conn, "SESSION_NOT_UP: -100">> >>
      ]_vars

\* C13 (Pending notification routing): a valid declaration with result -1 makes
\* exactly one send, "SESSION_NOT_UP: -1", to the declaring connection; and the
\* sends of every SESSION message go to the declaring connection or to the
\* targetWS its record has after the declaration, and to nobody else.
C13_PendingRouting ==
    [][last'.op = "SESSION"
       => /\ (Declares(last') /\ last'.result = "-1")
             => sent' = << <<last'.conn, "SESSION_NOT_UP: -1">> >>
          /\ Receivers(sent')
                \subseteq {last'.conn}
                          \cup {sessions'[j].targetWS : j \in OwnedBy(sessions', last'.conn)}
          /\ null \notin Receivers(sent')
      ]_vars

\* A reached state after the pending declaration (a,c,k1), with the records of
\* two other connections in the table, one of them a pending record of system b:
\* the only send went to the declaring connection.
C13_Witness ==
    /\ Declares(last) /\ last.result = "-1"
    /\ sent = << <<last.conn, "SESSION_NOT_UP: -1">> >>
    /\ Len(sessions) = 3
    /\ \A j \in 1..3 : sessions[j].targetWS = null
    /\ \E j \in 1..3 : sessions[j].clientID = "b" /\ sessions[j].ID # last.conn
    /\ IsDecl(last, last.conn, "a", "c", "k1")

\* Array t holds a record with the owner, client socket, pair and client key of r.
Keeps(t, r) ==
    \E h \in 1..Len(t) :
        /\ t[h].ID = r.ID /\ t[h].clientWS = r.clientWS
        /\ t[h].clientID = r.clientID /\ t[h].targetID = r.targetID
        /\ t[h].clientKey = r.clientKey

\* Array t holds a record of the owner and pair of r.
StillOwns(t, r) ==
    \E h \in 1..Len(t) :
        t[h].ID = r.ID /\ t[h].clientID = r.clientID /\ t[h].targetID = r.targetID

\* Event e is the disconnect of the owner of r, or a valid declaration of another
\* pair by the owner of r.
OwnerLeaves(e, r) ==
    \/ e.op = "close" /\ e.conn = r.ID
    \/ /\ Declares(e) /\ e.conn = r.ID
       /\ (e.client # r.clientID \/ e.target # r.targetID)

\* C14 as stated (Record ownership of the forward record): a client/target
\* record that a declaration by C finds is owned by C; a declaration by C leaves ID,
\* clientWS and clientKey of every record owned by another connection as they were;
\* and a record of connection D is gone after a step only if the step is the
\* disconnect of D or a declaration of another pair by D.
C14_ForwardOwnership_AsStated ==
    [][/\ Declares(last')
          => /\ last'.found # null => last'.found = last'.conn
             /\ \A j \in 1..Len(sessions) :
                    sessions[j].ID # last'.conn => Keeps(sessions', sessions[j])
       /\ \A j \in 1..Len(sessions) :
             ~StillOwns(sessions', sessions[j]) => OwnerLeaves(last', sessions[j])
      ]_vars

\* C14 amended: a client/target record that a declaration by C finds is C's
\* after the declaration (ID and clientWS C, clientKey the declared key), whoever
\* owned it before; a declaration by C leaves ID, clientWS and clientKey of every
\* record of another pair owned by another connection as they were; and a record of
\* connection D is gone after a step only if the step is the disconnect of D, a
\* declaration of another pair by D, or a declaration of D's pair by another
\* connection.
C14_ForwardOwnership ==
    [][/\ Declares(last')
          => /\ last'.found # null
                => \E h \in WithPair(sessions', last'.client, last'.target) :
                      /\ sessions'[h].ID = last'.conn
                      /\ sessions'[h].clientWS = last'.conn
                      /\ sessions'[h].clientKey = last'.key
             /\ \A j \in 1..Len(sessions) :
                    ( /\ sessions[j].ID # last'.conn
                      /\ (sessions[j].clientID # last'.client
                          \/ sessions[j].targetID # last'.target) )
                    => Keeps(sessions', sessions[j])
       /\ \A j \in 1..Len(sessions) :
             ~StillOwns(sessions', sessions[j])
             => \/ OwnerLeaves(last', sessions[j])
                \/ /\ Declares(last') /\ last'.conn # sessions[j].ID
                   /\ last'.client = sessions[j].clientID
                   /\ last'.target = sessions[j].targetID
      ]_vars

\* A reached state after a declaration that found the client/target record of a
\* confirmed pair in the hands of another connection, which is still open and now
\* owns no record.
C14_Witness ==
    /\ Declares(last) /\ last.result = "0"
    /\ last.found # null /\ last.found # last.conn
    /\ conn[last.found] = "open"
    /\ OwnedBy(sessions, last.found) = {}
    /\ \E h \in WithPair(sessions, last.client, last.target) :
          sessions[h].ID = last.conn /\ sessions[h].targetWS # null

\* C15 (Malformed messages are harmless): a message whose data does not parse,
\* or parses to a string, a number, a boolean or null, makes no send, leaves the
\* sessions array as it was, and does not end the process.
C15_MalformedHarmless ==
    [][last'.op \in {"text", "null"}
       => /\ sent' = <<>>
          /\ sessions' = sessions
          /\ ~crashed'
      ]_vars

\* C16 (No dangling connection references): in every reached state the ID and
\* clientWS of every record, and every targetWS that is not null, is an open
\* connection; after the disconnect of D no record has ID D or targetWS D; and
\* every send of a handler went to a connection that is open.
C16_NoDanglingReferences ==
    /\ \A j \in 1..Len(sessions) :
          /\ sessions[j].ID \in Conns /\ conn[sessions[j].ID] = "open"
          /\ sessions[j].clientWS \in Conns /\ conn[sessions[j].clientWS] = "open"
          /\ sessions[j].targetWS # null
             => sessions[j].targetWS \in Conns /\ conn[sessions[j].targetWS] = "open"
    /\ last.op = "close"
       => \A j \in 1..Len(sessions) :
             sessions[j].ID # last.conn /\ sessions[j].targetWS # last.conn
    /\ \A c \in Receivers(sent) : c \in Conns /\ conn[c] = "open"

\* A reached state after the disconnect of a connection whose partner was told
\* and is left with a pending record beside the record of a third connection.
C16_Witness ==
    /\ last.op = "close" /\ conn[last.conn] = "closed"
    /\ Len(sent) = 1 /\ Len(sessions) = 2
    /\ \E j \in OwnedBy(sessions, sent[1][1]) : sessions[j].targetWS = null
    /\ \A c \in Conns \ {last.conn} : conn[c] = "open"

\* The texts of the SESSION_NOT_UP signals.
NotUpTexts == {"SESSION_NOT_UP: -1", "SESSION_NOT_UP: -2", "SESSION_NOT_UP: -100",
               "SESSION_NOT_UP: undefined"}

\* The connections a handler sent a SESSION_NOT_UP signal to.
ToldNotUp(q) == {q[j][1] : j \in {i \in 1..Len(q) : q[i][2] \in NotUpTexts}}

\* C17 (Endpoint view consistency), step by step: "SESSION_UP" is sent only to
\* a connection that owns a confirmed record after the step, and every step after
\* which a connection that stays open no longer owns the confirmed record it owned
\* sends that connection a SESSION_NOT_UP signal; so a connection whose most recent
\* session signal is "SESSION_UP" owns a confirmed record.
C17_EndpointView ==
    [][\A C \in Conns :
          /\ C \in SentTo(sent', "SESSION_UP") => Confirmed(sessions', C)
          /\ (conn'[C] = "open" /\ Confirmed(sessions, C) /\ ~Confirmed(sessions', C))
             => C \in ToldNotUp(sent')
      ]_vars

\* The table holds at most one record for every pair.
UniquePairs(s) ==
    \A i \in 1..Len(s), j \in 1..Len(s) :
        (s[i].clientID = s[j].clientID /\ s[i].targetID = s[j].targetID) => i = j

\* C18 (Declared-pair uniqueness): in every reached state the table holds at
\* most one record for every pair (clientID, targetID); and a declaration leaves
\* the table one record longer than its cleanup left it only if the table then held
\* no record of the declared pair.
C18_PairUniqueness ==
    [][/\ UniquePairs(sessions')
       /\ Declares(last')
          => LET u == AfterCleanup(sessions, last'.conn, last'.client, last'.target)
             IN  /\ Len(sessions') \in {Len(u), Len(u) + 1}
                 /\ Len(sessions') = Len(u) + 1
                    => WithPair(u, last'.client, last'.target) = {}
      ]_vars

\* A reached state after a declaration that found the record of its pair in the
\* hands of another connection, beside the record of another pair: the table holds
\* one record of the declared pair.
C18_Witness ==
    /\ Declares(last)
    /\ last.found # null /\ last.found # last.conn
    /\ Len(sessions) = 2
    /\ Cardinality(WithPair(sessions, last.client, last.target)) = 1

\* C19 (Key mirroring and symmetric trust): in every reached state every record
\* with a targetWS has a record of the reverse pair, its targetKey is the clientKey
\* of every such record and its clientKey their targetKey; and the relay is enabled
\* from X to Y iff it is enabled from Y to X.
C19_KeyMirroring ==
    /\ \A i \in 1..Len(sessions) :
          sessions[i].targetWS # null
          => /\ WithPair(sessions, sessions[i].targetID, sessions[i].clientID) # {}
             /\ \A j \in WithPair(sessions, sessions[i].targetID, sessions[i].clientID) :
                   /\ sessions[i].targetKey = sessions[j].clientKey
                   /\ sessions[j].targetKey = sessions[i].clientKey
                   /\ (sessions[i].clientKey = sessions[i].targetKey)
                      <=> (sessions[j].clientKey = sessions[j].targetKey)
    /\ \A X \in Conns, Y \in Conns :
          RelayEnabled(sessions, X, Y) <=> RelayEnabled(sessions, Y, X)

\* A reached state with two records that point at each other and mirror two
\* different keys, after a declaration that changed the key of one side.
C19_Witness ==
    \E i \in 1..Len(sessions), j \in 1..Len(sessions) :
        /\ i # j
        /\ sessions[i].targetWS = sessions[j].ID /\ sessions[j].targetWS = sessions[i].ID
        /\ sessions[i].clientKey = "k2" /\ sessions[i].targetKey = "k1"
        /\ sessions[j].clientKey = "k1" /\ sessions[j].targetKey = "k2"
        /\ IsDecl(last, sessions[i].ID, sessions[i].clientID, sessions[i].targetID, "k2")
        /\ last.found = last.conn

\* C20 (Target fields move together): in every reached state every record has
\* targetKey null iff targetWS null, and a clientKey that is neither null nor
\* undefined; so a record with clientKey = targetKey has a targetWS, and no COMMAND
\* ends in a send on a null target.
C20_TargetFieldsTogether ==
    /\ \A j \in 1..Len(sessions) :
          /\ sessions[j].targetKey = null <=> sessions[j].targetWS = null
          /\ ~looseUndefined(sessions[j].clientKey)
          /\ sessions[j].clientKey = sessions[j].targetKey => sessions[j].targetWS # null
    /\ crashed => last.op # "COMMAND"

\* A reached state after a COMMAND of a connection whose record is pending
\* (targetKey and targetWS null): nothing was sent and the process runs on.
C20_Witness ==
    /\ last.op = "COMMAND" /\ sent = <<>> /\ ~crashed
    /\ \E j \in OwnedBy(sessions, last.conn) :
          sessions[j].targetKey = null /\ sessions[j].targetWS = null

====
